---- MODULE Spec2Model ----
(***************************************************************************)
(* A model of the study-buddy repository: the template registry,           *)
(* instantiation and Markdown rendering of templates.py, the document      *)
(* fetch of google_api_tools.py and the workflow of main.py.               *)
(*                                                                         *)
(* Python values are modelled with an explicit heap, because the           *)
(* properties of templates.py are about aliasing: a list or a dict is an   *)
(* object at an address, and a variable or a dict slot holds a reference.  *)
(***************************************************************************)
EXTENDS Integers, Sequences, FiniteSets, TLC

VARIABLES
    \* templates.py and its caller
    heap,      \* the objects (lists and dicts) of the process, by address
    tname,     \* the template name the caller works with
    results,   \* what each get_template / instantiate call returned
    nMut,      \* caller mutations made so far
    \* render_markdown and its caller
    rPc,       \* "idle", "call" (arguments chosen) or "returned"
    rName,     \* the name argument
    rContent,  \* the content argument
    rOut,      \* the lines render_markdown joined, once it returned
    \* get_document_text and its environment
    fPc,       \* "idle", "call" (arguments chosen) or "returned"
    fDocId,    \* the document_id argument
    fCreds,    \* the creds argument
    fs,        \* the local files, by path
    api,       \* what the Google Docs client does when it is called
    fOut,      \* what get_document_text returned or raised, and what it logged
    \* main.py: one run of main(doc_id)
    mPc,       \* the statement main is at; "done" (returned) or "crashed" (raised)
    mArg,      \* doc_id
    mCreds,    \* creds
    mText,     \* text
    mSummary,  \* summary
    mDoc,      \* doc_summary
    mI,        \* the index of the next highlight of the loop
    mCards,    \* highlight_cards
    mFinal,    \* final_flashcards
    mFiles,    \* the files written, by name
    mLog,      \* the log file
    mOut,      \* what main returned or raised
    mFailed,   \* the steps that failed in this run, in order
    mHlFailed, \* the highlights (by index) generate_flashcards raised for
    mExit,     \* the exit status of the process, once it has exited
    \* auth.py: authorize and its environment
    aPc,       \* "idle", "call" (environment chosen) or "returned"
    aEnv,      \* the libraries, files and OAuth outcomes authorize meets
    aOut       \* what authorize returned or raised, its log and token.json

tplVars == <<heap, tname, results, nMut>>
renderVars == <<rPc, rName, rContent, rOut>>
fetchVars == <<fPc, fDocId, fCreds, fs, api, fOut>>
mainVars == <<mPc, mArg, mCreds, mText, mSummary, mDoc, mI, mCards, mFinal, mFiles, mLog,
              mOut, mFailed, mHlFailed, mExit>>
authVars == <<aPc, aEnv, aOut>>
vars == <<tplVars, renderVars, fetchVars, mainVars, authVars>>

(***************************************************************************)
(* Bounds of the model.                                                    *)
(***************************************************************************)
\* number of get_template / instantiate calls in one run
MaxCalls == 2
\* number of caller mutations of returned structures in one run
MaxMutations == 1
\* length of the lists in the content given to render_markdown
MaxItems == 2

(***************************************************************************)
(* Python values.  A scalar is a string, a number or None; a list or a     *)
(* dict is a reference to a heap object.                                   *)
(***************************************************************************)
Str(s) == [t |-> "str", s |-> s]
Num(n) == [t |-> "num", n |-> n]
Ref(a) == [t |-> "ref", a |-> a]
None == [t |-> "none"]

\* heap objects; a dict keeps its keys in insertion order
ListObj(items) == [k |-> "list", items |-> items]
DictObj(keys, vals) == [k |-> "dict", keys |-> keys, vals |-> vals]

\* JSON text, as the tree it denotes
JList(items) == [t |-> "list", items |-> items]
JDict(keys, vals) == [t |-> "dict", keys |-> keys, vals |-> vals]

IndexOf(seq, x) ==
    IF \E i \in 1..Len(seq) : seq[i] = x
    THEN CHOOSE i \in 1..Len(seq) : seq[i] = x
    ELSE 0

\* d[k] = v on a dict object: replace in place, or insert at the end
DictSet(o, key, v) ==
    LET i == IndexOf(o.keys, key)
    IN IF i > 0
       THEN DictObj(o.keys, [o.vals EXCEPT ![i] = v])
       ELSE DictObj(Append(o.keys, key), Append(o.vals, v))

\* d.get(k, default) on a dict object
DictGet(o, key, default) ==
    LET i == IndexOf(o.keys, key)
    IN IF i > 0 THEN o.vals[i] ELSE default

(***************************************************************************)
(* json.dumps and json.loads.  dumps walks the object graph and produces   *)
(* text without any address in it; loads builds new objects for every      *)
(* list and dict of the text.                                              *)
(***************************************************************************)
RECURSIVE Dumps(_, _)
Dumps(h, v) ==
    IF v.t = "ref"
    THEN LET o == h[v.a]
         IN IF o.k = "list"
            THEN JList([i \in 1..Len(o.items) |-> Dumps(h, o.items[i])])
            ELSE JDict(o.keys, [i \in 1..Len(o.vals) |-> Dumps(h, o.vals[i])])
    ELSE v

RECURSIVE Loads(_, _), LoadsAll(_, _)
\* the heap after loading the trees of a sequence one after the other, and
\* the values they load to
LoadsAll(h, trees) ==
    IF trees = <<>>
    THEN [heap |-> h, vals |-> <<>>]
    ELSE LET first == Loads(h, Head(trees))
             rest == LoadsAll(first.heap, Tail(trees))
         IN [heap |-> rest.heap, vals |-> <<first.val>> \o rest.vals]

Loads(h, tree) ==
    IF tree.t = "list"
    THEN LET r == LoadsAll(h, tree.items)
         IN [heap |-> Append(r.heap, ListObj(r.vals)), val |-> Ref(Len(r.heap) + 1)]
    ELSE IF tree.t = "dict"
    THEN LET r == LoadsAll(h, tree.vals)
         IN [heap |-> Append(r.heap, DictObj(tree.keys, r.vals)),
             val |-> Ref(Len(r.heap) + 1)]
    ELSE [heap |-> h, val |-> tree]

(***************************************************************************)
(* templates.py: the TEMPLATES registry.                                   *)
(***************************************************************************)
S == Str("")
E == JList(<<>>)

TemplateNames ==
    <<"note", "flashcard", "quiz", "study_plan", "document_summary", "task", "research">>

TemplateDefaults ==
    [note |-> JDict(<<"title", "key_points", "summary", "definitions", "examples", "questions">>,
                    <<Str("Topic / Title"), E, S, E, E, E>>),
     flashcard |-> JDict(<<"question", "answer", "hint", "difficulty", "next_review_date">>,
                         <<S, S, S, Str("Medium"), S>>),
     quiz |-> JDict(<<"question", "options", "correct_answer", "explanation">>,
                    <<S, JList(<<S, S, S, S>>), Str("A"), S>>),
     study_plan |-> JDict(<<"weekly_goals", "subjects", "daily_targets", "resources_needed",
                            "progress_percent", "notes">>,
                          <<E, E,
                            JDict(<<"Mon", "Tue", "Wed", "Thu", "Fri", "Sat", "Sun">>,
                                  <<S, S, S, S, S, S, S>>),
                            E, Num(0), S>>),
     document_summary |-> JDict(<<"document_title", "overview", "key_highlights",
                                  "important_terms", "action_items">>,
                                <<S, S, E, E, E>>),
     task |-> JDict(<<"task", "priority", "deadline", "status", "notes">>,
                    <<S, Str("Med"), S, Str("Not Started"), S>>),
     research |-> JDict(<<"topic", "objective", "sources", "findings", "conclusion",
                          "references">>,
                        <<S, S, E, E, S, E>>)]

KnownNames == {TemplateNames[i] : i \in 1..Len(TemplateNames)}

\* the module-level dict literal, evaluated once at import: the seven
\* template dicts and their nested lists and dicts, in the heap
RegistryLoad ==
    LoadsAll(<<>>, [i \in 1..Len(TemplateNames) |-> TemplateDefaults[TemplateNames[i]]])

\* a lookup that falls back to the first template for a name it does not know
TEMPLATES_fallback(name) ==
    LET i == IndexOf(TemplateNames, name)
    IN IF i > 0 THEN RegistryLoad.vals[i] ELSE RegistryLoad.vals[1]

\* TEMPLATES.get(name): the registry's dict for a name, or None
TEMPLATES(name) ==
    LET i == IndexOf(TemplateNames, name)
    IN IF i > 0 THEN RegistryLoad.vals[i] ELSE None

\* get_template with dict(base) in place of the JSON round trip: a new top-level
\* dict whose slots still hold the registry's lists and dicts
get_template_shallow(h, name) ==
    LET base == TEMPLATES(name)
    IN IF base = None
       THEN [exc |-> "KeyError", heap |-> h, val |-> None]
       ELSE [exc |-> "", heap |-> Append(h, h[base.a]), val |-> Ref(Len(h) + 1)]

\* def get_template(name)
get_template(h, name) ==
    LET base == TEMPLATES(name)
    IN IF base = None
       THEN [exc |-> "KeyError", heap |-> h, val |-> None]
       ELSE LET r == Loads(h, Dumps(h, base))
            IN [exc |-> "", heap |-> r.heap, val |-> r.val]

\* a merge that drops the overlay's keys the template does not have
RECURSIVE MergeFrom_known_only(_, _, _)
MergeFrom_known_only(tpl, values, i) ==
    IF i > Len(values.keys)
    THEN tpl
    ELSE MergeFrom_known_only(
             IF IndexOf(tpl.keys, values.keys[i]) > 0
             THEN DictSet(tpl, values.keys[i], values.vals[i])
             ELSE tpl,
             values, i + 1)

\* the loop "for k, v in values.items(): tpl[k] = v", from item i on
RECURSIVE MergeFrom(_, _, _)
MergeFrom(tpl, values, i) ==
    IF i > Len(values.keys)
    THEN tpl
    ELSE MergeFrom(DictSet(tpl, values.keys[i], values.vals[i]), values, i + 1)

\* "not values": the overlay is None or an empty dict
Falsy(h, values) == values = None \/ h[values.a].keys = <<>>

\* instantiate returning "values or {}" for an empty or absent overlay
instantiate_empty(h, name, values) ==
    LET g == get_template(h, name)
    IN IF g.exc # ""
       THEN g
       ELSE IF Falsy(g.heap, values)
       THEN [exc |-> "", heap |-> Append(g.heap, DictObj(<<>>, <<>>)),
             val |-> Ref(Len(g.heap) + 1)]
       ELSE [exc |-> "",
             heap |-> [g.heap EXCEPT ![g.val.a] = MergeFrom(g.heap[g.val.a], g.heap[values.a], 1)],
             val |-> g.val]

\* def instantiate(name, values=None)
instantiate(h, name, values) ==
    LET g == get_template(h, name)
    IN IF g.exc # ""
       THEN g
       ELSE IF Falsy(g.heap, values)
       THEN g
       ELSE [exc |-> "",
             heap |-> [g.heap EXCEPT ![g.val.a] = MergeFrom(g.heap[g.val.a], g.heap[values.a], 1)],
             val |-> g.val]

(***************************************************************************)
(* The caller of templates.py.  It owns a few overlay dicts, calls         *)
(* get_template and instantiate, and mutates the structures it got back.   *)
(***************************************************************************)
UnknownNames == {"unknown", "Note"}

\* the overlay dicts the caller passes to instantiate
OverlayTrees ==
    << JDict(<<>>, <<>>),
       JDict(<<"key_points", "extra", "options", "question">>,
             <<JList(<<Str("A")>>), JDict(<<"src">>, <<Str("web")>>), Str("none"), Str("Q?")>>) >>

CallerLoad == LoadsAll(RegistryLoad.heap, OverlayTrees)

Overlays == {CallerLoad.vals[i] : i \in 1..Len(OverlayTrees)}

\* a mutation the caller makes through a structure it holds
\*   set:    r[key] = "M"
\*   append: r[key].append("M")
\*   item:   r[key][0] = "M"
\*   sub:    r[key][sub] = "M"
Mutation(kind, key, sub) == [kind |-> kind, key |-> key, sub |-> sub]

M == Str("M")

\* the mutations open to the caller on the dict at root
Mutations(h, root) ==
    LET o == h[root.a]
        refs == {i \in 1..Len(o.keys) : o.vals[i].t = "ref"}
    IN {Mutation("set", k, "") : k \in {o.keys[1], "custom"}}
       \cup {Mutation("append", o.keys[i], "") : i \in {j \in refs : h[o.vals[j].a].k = "list"}}
       \cup {Mutation("item", o.keys[i], "") :
                 i \in {j \in refs : h[o.vals[j].a].k = "list" /\ h[o.vals[j].a].items # <<>>}}
       \cup {Mutation("sub", o.keys[i], h[o.vals[i].a].keys[1]) :
                 i \in {j \in refs : h[o.vals[j].a].k = "dict" /\ h[o.vals[j].a].keys # <<>>}}
       \cup {Mutation("sub", o.keys[i], "custom") : i \in {j \in refs : h[o.vals[j].a].k = "dict"}}

\* the heap after the caller's mutation m through the dict at root
HeapApply(h, root, m) ==
    LET o == h[root.a]
        inner == DictGet(o, m.key, None)
    IN IF m.kind = "set"
       THEN [h EXCEPT ![root.a] = DictSet(o, m.key, M)]
       ELSE IF m.kind = "append"
       THEN [h EXCEPT ![inner.a] = ListObj(Append(h[inner.a].items, M))]
       ELSE IF m.kind = "item"
       THEN [h EXCEPT ![inner.a] = ListObj([h[inner.a].items EXCEPT ![1] = M])]
       ELSE [h EXCEPT ![inner.a] = DictSet(h[inner.a], m.sub, M)]

\* d[k] = v on the value of a dict
TreeSet(tree, key, v) ==
    LET o == DictSet(tree, key, v)
    IN JDict(o.keys, o.vals)

\* the same mutation on the value a structure denotes
TreeApply(tree, m) ==
    LET i == IndexOf(tree.keys, m.key)
        inner == tree.vals[i]
    IN IF m.kind = "set"
       THEN TreeSet(tree, m.key, M)
       ELSE IF m.kind = "append"
       THEN [tree EXCEPT !.vals[i] = JList(Append(inner.items, M))]
       ELSE IF m.kind = "item"
       THEN [tree EXCEPT !.vals[i] = JList([inner.items EXCEPT ![1] = M])]
       ELSE [tree EXCEPT !.vals[i] = TreeSet(inner, m.sub, M)]

\* the record the caller keeps of a call: what was passed (ovt: the overlay's
\* value at the call), what came back (ret: the value of the returned
\* structure at return), and the value the structure should have now, given
\* the mutations made through it
Result(op, values, h, r) ==
    [op |-> op, values |-> values,
     ovt |-> IF values = None THEN None ELSE Dumps(h, values),
     exc |-> r.exc, val |-> r.val,
     ret |-> IF r.exc = "" THEN Dumps(r.heap, r.val) ELSE None,
     expect |-> IF r.exc = "" THEN Dumps(r.heap, r.val) ELSE None]

TplInit ==
    /\ heap = CallerLoad.heap
    /\ tname \in KnownNames \cup UnknownNames
    /\ results = <<>>
    /\ nMut = 0

\* the state of the parts a specification leaves out
TplIdle == heap = <<>> /\ tname = "" /\ results = <<>> /\ nMut = 0
RenderIdle == rPc = "idle" /\ rName = "" /\ rContent = None /\ rOut = <<>>
FetchIdle ==
    fPc = "idle" /\ fDocId = "" /\ fCreds = None /\ fs = <<>> /\ api = <<>> /\ fOut = <<>>
AuthIdle == aPc = "idle" /\ aEnv = None /\ aOut = <<>>

MainIdle ==
    /\ mPc = "idle" /\ mArg = None /\ mCreds = None /\ mText = "" /\ mSummary = ""
    /\ mDoc = None /\ mI = 0 /\ mCards = <<>> /\ mFinal = <<>> /\ mFiles = <<>>
    /\ mLog = <<>> /\ mOut = <<>> /\ mFailed = <<>> /\ mHlFailed = {} /\ mExit = None

CallGetTemplate ==
    /\ Len(results) < MaxCalls
    /\ LET r == get_template(heap, tname)
       IN /\ heap' = r.heap
          /\ results' = Append(results, Result("get_template", None, heap, r))
    /\ UNCHANGED <<tname, nMut, renderVars, fetchVars, mainVars, authVars>>

CallInstantiate ==
    /\ Len(results) < MaxCalls
    /\ \E values \in {None} \cup Overlays :
          LET r == instantiate(heap, tname, values)
          IN /\ heap' = r.heap
             /\ results' = Append(results, Result("instantiate", values, heap, r))
    /\ UNCHANGED <<tname, nMut, renderVars, fetchVars, mainVars, authVars>>

CallerMutates ==
    /\ nMut < MaxMutations
    /\ \E i \in 1..Len(results) :
          /\ results[i].exc = ""
          /\ \E m \in Mutations(heap, results[i].val) :
                /\ heap' = HeapApply(heap, results[i].val, m)
                /\ results' = [results EXCEPT ![i].expect = TreeApply(@, m)]
    /\ nMut' = nMut + 1
    /\ UNCHANGED <<tname, renderVars, fetchVars, mainVars, authVars>>

Init == TplInit /\ RenderIdle /\ FetchIdle /\ MainIdle /\ AuthIdle

Next == CallGetTemplate \/ CallInstantiate \/ CallerMutates

Spec == Init /\ [][Next]_vars

(***************************************************************************)
(* Properties of templates.py, checked under Spec.                         *)
(***************************************************************************)
ReturnedBy(op) == {i \in 1..Len(results) : results[i].op = op /\ results[i].exc = ""}

KeysOf(seq) == {seq[i] : i \in 1..Len(seq)}

\* the value under a key of a JSON dict
At(tree, key) == tree.vals[IndexOf(tree.keys, key)]

\* C1: after any calls and caller mutations the registry holds its original
\* defaults, every get_template call returned the defaults, and a structure
\* returned by get_template changes only by the mutations made through it
\* (never by a mutation made through another returned structure).
C1_RegistryIntactCopiesIndependent ==
    /\ \A n \in KnownNames : Dumps(heap, TEMPLATES(n)) = TemplateDefaults[n]
    /\ \A i \in ReturnedBy("get_template") :
          /\ results[i].ret = TemplateDefaults[tname]
          /\ Dumps(heap, results[i].val) = results[i].expect

\* two get_template results of a template with a nested list; the nested
\* list of the first was mutated, the second still has the defaults
C1_Witness ==
    /\ tname = "quiz"
    /\ ReturnedBy("get_template") = {1, 2}
    /\ At(Dumps(heap, results[1].val), "options") = JList(<<M, S, S, S>>)
    /\ Dumps(heap, results[2].val) = TemplateDefaults["quiz"]

\* C2: instantiate(name, overlay) holds every overlay key with the overlay's
\* value, every other template key with its default, and no other key.
C2_OverlayLaw ==
    \A i \in ReturnedBy("instantiate") :
        LET r == results[i]
            tpl == TemplateDefaults[tname]
            ovKeys == IF r.ovt = None THEN {} ELSE KeysOf(r.ovt.keys)
        IN /\ KeysOf(r.ret.keys) = KeysOf(tpl.keys) \cup ovKeys
           /\ Len(r.ret.keys) = Cardinality(KeysOf(r.ret.keys))
           /\ \A k \in ovKeys : At(r.ret, k) = At(r.ovt, k)
           /\ \A k \in KeysOf(tpl.keys) \ ovKeys : At(r.ret, k) = At(tpl, k)

\* an overlay that adds a key, replaces a list default by a string and leaves
\* other defaults alone
C2_Witness ==
    \E i \in ReturnedBy("instantiate") :
        /\ tname = "quiz"
        /\ results[i].ovt = OverlayTrees[2]
        /\ "extra" \in KeysOf(results[i].ret.keys)
        /\ At(results[i].ret, "options") = Str("none")
        /\ At(results[i].ret, "correct_answer") = Str("A")

\* C3: a structure returned by instantiate changes only by the mutations made
\* through it, and the overlay passed in keeps the value it had at the call.
C3_InstantiateIndependent ==
    \A i \in ReturnedBy("instantiate") :
        /\ Dumps(heap, results[i].val) = results[i].expect
        /\ results[i].values # None => Dumps(heap, results[i].values) = results[i].ovt

\* C4: an unknown name fails with KeyError in both operations, returns no
\* structure and leaves the heap (the registry included) as it was; a known
\* name never fails, whatever the overlay.
C4_UnknownTemplate ==
    /\ \A i \in 1..Len(results) :
          IF tname \in KnownNames
          THEN results[i].exc = "" /\ results[i].val.t = "ref"
          ELSE results[i].exc = "KeyError" /\ results[i].val = None
    /\ tname \notin KnownNames =>
          /\ heap = CallerLoad.heap
          /\ \A n \in KnownNames : Dumps(heap, TEMPLATES(n)) = TemplateDefaults[n]

\* both operations were called with an unknown name, instantiate with an overlay
C4_Witness ==
    /\ tname \notin KnownNames
    /\ Len(results) = 2
    /\ results[1].op = "get_template"
    /\ results[2].op = "instantiate" /\ results[2].ovt = OverlayTrees[2]
    /\ results[2].exc = "KeyError"

\* C5: instantiate(name, {}) and instantiate(name) return a structure equal
\* to the one get_template(name) returns.
C5_EmptyOverlay ==
    \A i \in ReturnedBy("instantiate") :
        results[i].ovt \in {None, JDict(<<>>, <<>>)} =>
            LET g == get_template(heap, tname)
            IN results[i].ret = Dumps(g.heap, g.val)

\* one call with the overlay absent and one with the empty overlay
C5_Witness ==
    /\ ReturnedBy("instantiate") = {1, 2}
    /\ results[1].ovt = None
    /\ results[2].ovt = JDict(<<>>, <<>>)
    /\ results[2].ret = TemplateDefaults[tname]

(***************************************************************************)
(* templates.py: render_markdown.  The content is a dict whose values are  *)
(* strings, numbers, None, lists and dicts; render_markdown only reads it, *)
(* so it is given by value.  Lines are Python strings.                     *)
(***************************************************************************)
\* str(v) for a scalar, as an f-string or str() formats it
PyStr(v) ==
    CASE v.t = "str" -> v.s
      [] v.t = "num" -> ToString(v.n)
      [] v.t = "none" -> "None"

RECURSIVE Pad(_)
Pad(n) == IF n = 0 THEN "" ELSE " " \o Pad(n - 1)

RECURSIVE JoinWith(_, _)
\* sep.join(strs)
JoinWith(strs, sep) ==
    IF strs = <<>> THEN ""
    ELSE IF Len(strs) = 1 THEN strs[1]
    ELSE strs[1] \o sep \o JoinWith(Tail(strs), sep)

RECURSIVE JsonText(_, _)
\* json.dumps(v, indent=2), for a value nested ind spaces deep
JsonText(v, ind) ==
    CASE v.t = "str" -> "\"" \o v.s \o "\""
      [] v.t = "num" -> ToString(v.n)
      [] v.t = "none" -> "null"
      [] v.t = "list" ->
           IF v.items = <<>> THEN "[]"
           ELSE "[\n"
                \o JoinWith([i \in 1..Len(v.items) |->
                                Pad(ind + 2) \o JsonText(v.items[i], ind + 2)], ",\n")
                \o "\n" \o Pad(ind) \o "]"
      [] v.t = "dict" ->
           IF v.keys = <<>> THEN "{}"
           ELSE "{\n"
                \o JoinWith([i \in 1..Len(v.keys) |->
                                Pad(ind + 2) \o "\"" \o v.keys[i] \o "\": "
                                \o JsonText(v.vals[i], ind + 2)], ",\n")
                \o "\n" \o Pad(ind) \o "}"

\* name.replace('_', ' ').title()
HeadingText(name) ==
    CASE name = "note" -> "Note"
      [] name = "flashcard" -> "Flashcard"
      [] name = "quiz" -> "Quiz"
      [] name = "study_plan" -> "Study Plan"
      [] name = "document_summary" -> "Document Summary"
      [] name = "task" -> "Task"
      [] name = "research" -> "Research"
      [] name = "unknown" -> "Unknown"
      [] name = "Note" -> "Note"

\* the line add_section starts a section with
TitleLine(title) == "\n**" \o title \o "**\n"

\* add_section that emits nothing for an empty list
add_section_no_placeholder(lines, title, body) ==
    lines \o <<TitleLine(title)>> \o
    (IF body.t = "list"
     THEN [i \in 1..Len(body.items) |-> "- " \o PyStr(body.items[i])]
     ELSE IF body.t = "dict"
     THEN [i \in 1..Len(body.keys) |-> "- **" \o body.keys[i] \o "**: " \o PyStr(body.vals[i])]
     ELSE <<IF body # None THEN PyStr(body) ELSE "">>)

\* def add_section(title, body): the lines after the call
add_section(lines, title, body) ==
    lines \o <<TitleLine(title)>> \o
    (IF body.t = "list"
     THEN (IF body.items = <<>> THEN <<"- ">> ELSE <<>>)
          \o [i \in 1..Len(body.items) |-> "- " \o PyStr(body.items[i])]
     ELSE IF body.t = "dict"
     THEN [i \in 1..Len(body.keys) |-> "- **" \o body.keys[i] \o "**: " \o PyStr(body.vals[i])]
     ELSE <<IF body # None THEN PyStr(body) ELSE "">>)

Rule(title, field, default) == [title |-> title, field |-> field, default |-> default]

NoItems == JList(<<>>)

\* the add_section calls of each branch of render_markdown, in order
RenderRules(name) ==
    CASE name = "note" ->
           << Rule("Topic / Title", "title", S), Rule("Key Points", "key_points", NoItems),
              Rule("Summary", "summary", S), Rule("Definitions", "definitions", NoItems),
              Rule("Examples", "examples", NoItems),
              Rule("Questions I Still Have", "questions", NoItems) >>
      [] name = "flashcard" ->
           << Rule("Question", "question", S), Rule("Answer", "answer", S),
              Rule("Hint", "hint", S), Rule("Difficulty", "difficulty", S),
              Rule("Next Review Date", "next_review_date", S) >>
      [] name = "quiz" ->
           << Rule("Question", "question", S), Rule("Options", "options", NoItems),
              Rule("Correct Answer", "correct_answer", S),
              Rule("Explanation", "explanation", S) >>
      [] name = "study_plan" ->
           << Rule("Weekly Goals", "weekly_goals", NoItems), Rule("Subjects", "subjects", NoItems),
              Rule("Daily Targets", "daily_targets", JDict(<<>>, <<>>)),
              Rule("Resources Needed", "resources_needed", NoItems),
              Rule("Progress (%)", "progress_percent", Num(0)), Rule("Notes", "notes", S) >>
      [] name = "document_summary" ->
           << Rule("Document Title", "document_title", S), Rule("Overview", "overview", S),
              Rule("Key Highlights", "key_highlights", NoItems),
              Rule("Important Terms", "important_terms", NoItems),
              Rule("Action Items / To-Do", "action_items", NoItems) >>
      [] name = "task" ->
           << Rule("Task", "task", S), Rule("Priority", "priority", S),
              Rule("Deadline", "deadline", S), Rule("Status", "status", S),
              Rule("Notes", "notes", S) >>
      [] name = "research" ->
           << Rule("Topic", "topic", S), Rule("Objective", "objective", S),
              Rule("Sources", "sources", NoItems), Rule("Findings", "findings", NoItems),
              Rule("Conclusion", "conclusion", S), Rule("References", "references", NoItems) >>
      [] OTHER -> <<>>

\* a branch that emits a section only for the fields the content has
RECURSIVE Sections_present_only(_, _, _, _)
Sections_present_only(lines, rules, content, i) ==
    IF i > Len(rules)
    THEN lines
    ELSE Sections_present_only(
             IF IndexOf(content.keys, rules[i].field) > 0
             THEN add_section(lines, rules[i].title,
                              DictGet(content, rules[i].field, rules[i].default))
             ELSE lines,
             rules, content, i + 1)

\* the add_section calls of one branch, from the i-th on
RECURSIVE Sections(_, _, _, _)
Sections(lines, rules, content, i) ==
    IF i > Len(rules)
    THEN lines
    ELSE Sections(add_section(lines, rules[i].title,
                              DictGet(content, rules[i].field, rules[i].default)),
                  rules, content, i + 1)

\* the backquote character, which a TLA+ string cannot hold, is written ~
BQ == "~"

\* the list render_markdown builds: the heading, then the branch of the name
\* or, for another name, the generic dump
RenderLines(name, content) ==
    LET heading == <<"# " \o HeadingText(name)>>
    IN IF name \in KnownNames
       THEN Sections(heading, RenderRules(name), content, 1)
       ELSE heading \o <<"\n" \o BQ \o BQ \o "json\n", JsonText(content, 0),
                         "\n" \o BQ \o BQ \o BQ>>

\* def render_markdown(name, content)
render_markdown(name, content) == JoinWith(RenderLines(name, content), "\n")

(***************************************************************************)
(* The caller of render_markdown: the contents it is given.                *)
(***************************************************************************)
\* a list of n items, strings and numbers
ItemsOf(n) == JList([i \in 1..n |-> IF i % 2 = 1 THEN Str("item" \o ToString(i)) ELSE Num(i)])

\* "default" keeps each field's template default; another scalar or a dict
\* fills every field; a list fills the fields with lists of different lengths
Fills ==
    {Str("default"), Str("v"), Num(7), None, JDict(<<>>, <<>>),
     JDict(<<"Mon", "Tue">>, <<Str("x"), Str("")>>)}
    \cup {ItemsOf(n) : n \in 0..MaxItems}

Reverse(seq) == [i \in 1..Len(seq) |-> seq[Len(seq) + 1 - i]]

\* the subsequence of seq at the indexes in keep
RECURSIVE Keep(_, _, _)
Keep(seq, keep, i) ==
    IF i > Len(seq) THEN <<>>
    ELSE (IF i \in keep THEN <<seq[i]>> ELSE <<>>) \o Keep(seq, keep, i + 1)

\* a content for the template base: some fields present, filled, with or
\* without a field the template does not have, in either insertion order
Content(base, keep, fill, extra, reversed) ==
    LET keys == Keep(base.keys, keep, 1) \o (IF extra THEN <<"custom">> ELSE <<>>)
        vals == Keep([i \in 1..Len(base.vals) |->
                          IF fill = Str("default") THEN base.vals[i]
                          ELSE IF fill.t = "list"
                          THEN ItemsOf((Len(fill.items) + i) % (MaxItems + 1))
                          ELSE fill], keep, 1)
                \o (IF extra THEN <<Str("c")>> ELSE <<>>)
    IN IF reversed THEN JDict(Reverse(keys), Reverse(vals)) ELSE JDict(keys, vals)

Contents(name) ==
    LET base == IF name \in KnownNames THEN TemplateDefaults[name] ELSE TemplateDefaults["quiz"]
    IN {Content(base, keep, fill, extra, reversed) :
           keep \in SUBSET (1..Len(base.keys)), fill \in Fills,
           extra \in BOOLEAN, reversed \in BOOLEAN}

RenderInit ==
    /\ rPc = "call"
    /\ rName \in KnownNames \cup UnknownNames
    /\ rContent \in Contents(rName)
    /\ rOut = <<>>

CallRenderMarkdown ==
    /\ rPc = "call"
    /\ rOut' = [lines |-> RenderLines(rName, rContent),
                text |-> render_markdown(rName, rContent)]
    /\ rPc' = "returned"
    /\ UNCHANGED <<rName, rContent, tplVars, fetchVars, mainVars, authVars>>

InitRender == TplIdle /\ RenderInit /\ FetchIdle /\ MainIdle /\ AuthIdle

NextRender == CallRenderMarkdown

SpecRender == InitRender /\ [][NextRender]_vars

(***************************************************************************)
(* Properties of render_markdown, checked under SpecRender.                *)
(***************************************************************************)
\* the section-order table of the specification (4.3)
SectionOrder ==
    [note |-> <<"title", "key_points", "summary", "definitions", "examples", "questions">>,
     flashcard |-> <<"question", "answer", "hint", "difficulty", "next_review_date">>,
     quiz |-> <<"question", "options", "correct_answer", "explanation">>,
     study_plan |-> <<"weekly_goals", "subjects", "daily_targets", "resources_needed",
                      "progress_percent", "notes">>,
     document_summary |-> <<"document_title", "overview", "key_highlights", "important_terms",
                            "action_items">>,
     task |-> <<"task", "priority", "deadline", "status", "notes">>,
     research |-> <<"topic", "objective", "sources", "findings", "conclusion", "references">>]

AllTitles ==
    UNION {{RenderRules(n)[i].title : i \in 1..Len(RenderRules(n))} : n \in KnownNames}

IsTitleLine(line) == \E t \in AllTitles : line = TitleLine(t)

\* the positions of the title lines among lines, from position i on
RECURSIVE TitlePositions(_, _)
TitlePositions(lines, i) ==
    IF i > Len(lines) THEN <<>>
    ELSE (IF IsTitleLine(lines[i]) THEN <<i>> ELSE <<>>) \o TitlePositions(lines, i + 1)

\* the lines of the k-th section after its title line
SectionBody(lines, pos, k) ==
    SubSeq(lines, pos[k] + 1, IF k < Len(pos) THEN pos[k + 1] - 1 ELSE Len(lines))

\* the rule render_markdown has for a field of a template: its title and the
\* default it reads the field with
RuleOf(name, field) ==
    LET rules == RenderRules(name)
        idx == {i \in 1..Len(rules) : rules[i].field = field}
    IN IF idx = {} THEN Rule("", field, None) ELSE rules[CHOOSE i \in idx : TRUE]

\* C6: for a known name and any content, the output is the heading followed
\* by exactly one section per field of the name's row of the table, in the
\* row's order, each holding the content's value for its field.
C6_SectionOrder ==
    (rPc = "returned" /\ rName \in KnownNames) =>
        LET lines == rOut.lines
            pos == TitlePositions(lines, 1)
            row == SectionOrder[rName]
        IN /\ lines[1] = "# " \o HeadingText(rName)
           /\ Len(pos) = Len(row)
           /\ pos # <<>> => pos[1] = 2
           /\ \A k \in 1..Len(pos) :
                 LET rule == RuleOf(rName, row[k])
                 IN /\ lines[pos[k]] = TitleLine(rule.title)
                    /\ rule.title # ""
                    /\ <<lines[pos[k]]>> \o SectionBody(lines, pos, k)
                         = add_section(<<>>, rule.title,
                                       DictGet(rContent, row[k], rule.default))

\* a content in reverse insertion order, with an extra field and a missing one
C6_Witness ==
    /\ rPc = "returned"
    /\ rName = "study_plan"
    /\ Len(rContent.keys) >= 2
    /\ rContent.keys[1] = "custom"
    /\ rContent.keys[2] = "progress_percent"
    /\ IndexOf(rContent.keys, "notes") = 0
    /\ Len(TitlePositions(rOut.lines, 1)) = 6

\* C7: a section whose value is a list holds, after its title line, one
\* bullet line per element in element order, or the single line "- " when
\* the list is empty.
C7_ListSection ==
    (rPc = "returned" /\ rName \in KnownNames) =>
        LET lines == rOut.lines
            pos == TitlePositions(lines, 1)
            rules == RenderRules(rName)
        IN \A k \in 1..Len(pos) :
               LET body == DictGet(rContent, rules[k].field, rules[k].default)
               IN body.t = "list" =>
                      SectionBody(lines, pos, k) =
                          IF body.items = <<>>
                          THEN <<"- ">>
                          ELSE [i \in 1..Len(body.items) |-> "- " \o PyStr(body.items[i])]

\* a content with a list of two elements and an empty list, both rendered
C7_Witness ==
    /\ rPc = "returned"
    /\ rName = "note"
    /\ \E k \in 1..Len(rContent.keys) : rContent.vals[k] = JList(<<>>)
    /\ DictGet(rContent, "key_points", None) = JList(<<Str("item1"), Num(2)>>)
    /\ \E i \in 1..Len(rOut.lines) - 3 :
          SubSeq(rOut.lines, i, i + 3) =
              <<TitleLine("Key Points"), "- item1", "- 2", TitleLine("Summary")>>
    /\ \E i \in 1..Len(rOut.lines) - 1 :
          /\ IsTitleLine(rOut.lines[i]) /\ rOut.lines[i + 1] = "- "
          /\ (i + 2 <= Len(rOut.lines) => IsTitleLine(rOut.lines[i + 2]))

(***************************************************************************)
(* google_api_tools.py: get_document_text.  Its environment is the local   *)
(* file system and the Google Docs client; both are given to the operator. *)
(***************************************************************************)
\* credentials: None, the placeholder dict of auth.py, or a Credentials object
Bool(b) == [t |-> "bool", b |-> b]
PlaceholderToken == JDict(<<"access_token", "created">>, <<Str("placeholder"), Bool(TRUE)>>)
RealCredentials == [t |-> "credentials"]

\* isinstance(creds, dict)
IsDict(v) == v.t = "dict"

\* a log record of the shared log file
Log(level, logger, msg) == [level |-> level, logger |-> logger, msg |-> msg]

\* files: a path holds nothing, a directory, or a regular text file
Absent == [kind |-> "absent"]
Directory == [kind |-> "dir"]
File(data) == [kind |-> "file", data |-> data]

FileAt(files, path) == IF path \in DOMAIN files THEN files[path] ELSE Absent
\* os.path.exists(path), os.path.isfile(path)
Exists(files, path) == FileAt(files, path).kind # "absent"
IsFile(files, path) == FileAt(files, path).kind = "file"

\* d.get(field, default) on a resource of the Docs API
Field(d, field, default) == IF field \in DOMAIN d THEN d[field] ELSE default

\* the textRun contents of the elements of a paragraph, from the i-th on
RECURSIVE ElementsText(_, _)
ElementsText(elements, i) ==
    IF i > Len(elements) THEN ""
    ELSE LET tr == Field(elements[i], "textRun", <<>>)
         IN (IF tr # <<>> /\ "content" \in DOMAIN tr THEN tr.content ELSE "")
            \o ElementsText(elements, i + 1)

\* the text of the paragraphs of the body content, from the i-th on
RECURSIVE ContentText(_, _)
ContentText(content, i) ==
    IF i > Len(content) THEN ""
    ELSE LET paragraph == Field(content[i], "paragraph", <<>>)
         IN (IF paragraph = <<>> THEN ""
             ELSE ElementsText(Field(paragraph, "elements", <<>>), 1))
            \o ContentText(content, i + 1)

\* def _extract_text_from_doc(document)
extract_text_from_doc(document) ==
    ContentText(Field(Field(document, "body", <<>>), "content", <<>>), 1)

Raised(exc, log) == [exc |-> exc, val |-> None, log |-> log]
Returned(val, log) == [exc |-> "", val |-> val, log |-> log]

\* the local-file part of get_document_text (lines 66-79), after the log so far
LocalFile(document_id, files, log) ==
    IF Exists(files, document_id) /\ IsFile(files, document_id)
    THEN Returned(Str(FileAt(files, document_id).data),
                   Append(log, Log("INFO", "google_api_tools",
                                   "Text extraction complete (local file). Characters: %d")))
    ELSE Raised("FileNotFoundError",
                log \o << Log("ERROR", "google_api_tools",
                              "Document not found locally and Google Docs API not available/configured: %s"),
                          Log("ERROR", "google_api_tools", "Failed fetching document %s: %s") >>)

\* get_document_text written as study.py writes it: None when nothing is found
get_document_text_or_none(document_id, creds, files, client) ==
    LET r == LocalFile(document_id, files, <<>>)
    IN IF r.exc = "" THEN r ELSE Returned(None, r.log)

\* def get_document_text(document_id, creds=None)
\* client: "import_error" (googleapiclient is not installed), "build_error",
\* "http_error" (the request fails), or the document resource the request returns
get_document_text(document_id, creds, files, client) ==
    LET start == <<Log("INFO", "google_api_tools", "Starting fetch for document ID: %s")>>
        apiError == Log("ERROR", "google_api_tools", "Google Docs API error for %s: %s")
        attempt == Log("INFO", "google_api_tools",
                       "Attempting to fetch document via Google Docs API: %s")
    IN IF creds # None /\ ~IsDict(creds)
       THEN IF client = <<"import_error">>
            THEN LocalFile(document_id, files,
                           start \o << Log("WARNING", "google_api_tools",
                                           "googleapiclient not installed; cannot call Google Docs API."),
                                       apiError >>)
            ELSE IF client = <<"build_error">>
            THEN LocalFile(document_id, files, start \o <<apiError>>)
            ELSE IF client = <<"http_error">>
            THEN LocalFile(document_id, files, start \o <<attempt, apiError>>)
            ELSE Returned(Str(extract_text_from_doc(client[2])),
                           start \o << attempt,
                                       Log("INFO", "google_api_tools",
                                           "Text extraction complete (Docs API). Characters: %d") >>)
       ELSE LocalFile(document_id, files, start)

(***************************************************************************)
(* The caller of get_document_text and the environments it runs in.        *)
(***************************************************************************)
DocumentIds == {"sample_document.txt", "1AbCdEf", "notes"}

FileStates == {Absent, Directory, File("Hello world."), File("")}

Documents ==
    { [title |-> "Empty"],
      [body |-> [content |->
          << [sectionBreak |-> TRUE],
             [paragraph |-> [elements |->
                 << [textRun |-> [content |-> "Remote notes. "]],
                    [inlineObjectElement |-> TRUE],
                    [textRun |-> [content |-> "Second run.\n"]] >>]],
             [paragraph |-> [elements |-> <<[textRun |-> [content |-> "Last."]]>>]] >>]] }

Clients == {<<"import_error">>, <<"build_error">>, <<"http_error">>}
           \cup {<<"document", d>> : d \in Documents}

CredentialValues == {None, PlaceholderToken, RealCredentials}

FetchInit ==
    /\ fPc = "call"
    /\ fDocId \in DocumentIds
    /\ fCreds \in CredentialValues
    /\ fs \in [{"sample_document.txt", "notes"} -> FileStates]
    /\ api \in Clients
    /\ fOut = <<>>

CallGetDocumentText ==
    /\ fPc = "call"
    /\ fOut' = get_document_text(fDocId, fCreds, fs, api)
    /\ fPc' = "returned"
    /\ UNCHANGED <<fDocId, fCreds, fs, api, tplVars, renderVars, mainVars, authVars>>

InitFetch == TplIdle /\ RenderIdle /\ FetchInit /\ MainIdle /\ AuthIdle

NextFetch == CallGetDocumentText

SpecFetch == InitFetch /\ [][NextFetch]_vars

(***************************************************************************)
(* Properties of get_document_text, checked under SpecFetch.               *)
(***************************************************************************)
\* the identifier resolves to a remote document: real credentials were given
\* and the Docs API call returned the document
ResolvesRemote == fCreds # None /\ ~IsDict(fCreds) /\ api[1] = "document"

\* the identifier names an existing local regular file
ResolvesLocal == IsFile(fs, fDocId)

Min(a, b) == IF a < b THEN a ELSE b

\* s[i], counting from 1
Char(s, i) == SubSeq(s, i, i)

\* s[:n]
Take(s, n) == SubSeq(s, 1, Min(n, Len(s)))

IsSpace(c) == c \in {" ", "\n", "\t", "\r"}

Least(set) == CHOOSE x \in set : \A y \in set : x <= y
Greatest(set) == CHOOSE x \in set : \A y \in set : x >= y

\* the positions of s, from position start on, that hold the character c
Positions(s, c, start) == {i \in start..Len(s) : Char(s, i) = c}

\* s.strip()
Strip(s) ==
    LET solid == {i \in 1..Len(s) : ~IsSpace(Char(s, i))}
    IN IF solid = {} THEN "" ELSE SubSeq(s, Least(solid), Greatest(solid))

\* s.split(c), for the part of s from position start on
RECURSIVE SplitAt(_, _, _)
SplitAt(s, c, start) ==
    LET at == Positions(s, c, start)
    IN IF at = {} THEN <<SubSeq(s, start, Len(s))>>
       ELSE <<SubSeq(s, start, Least(at) - 1)>> \o SplitAt(s, c, Least(at) + 1)

\* s.split('.')
SplitDots(s) == SplitAt(s, ".", 1)

\* s.replace('\n', ' ')
ReplaceNewlines(s) == JoinWith(SplitAt(s, "\n", 1), " ")

\* s.rfind('. '), counting from 0; -1 when there is none
RFindDotSpace(s) ==
    LET at == {i \in 1..Len(s) - 1 : SubSeq(s, i, i + 1) = ". "}
    IN IF at = {} THEN -1 ELSE Greatest(at) - 1

\* [p.strip() for p in pieces if p.strip()]
StrippedNonEmpty(pieces) ==
    SelectSeq([i \in 1..Len(pieces) |-> Strip(pieces[i])], LAMBDA p : p # "")

(***************************************************************************)
(* gemini_processor.py                                                     *)
(***************************************************************************)
MaxChars == 400
QuestionChars == 60
BulkCards == 10
HighlightCount == 3

\* def summarize_notes(text, max_chars=400), when it does not fail
summarize_notes(text) ==
    IF text = "" THEN ""
    ELSE LET stripped == Strip(text)
         IN IF Len(stripped) > MaxChars
            THEN LET cut == Take(stripped, MaxChars)
                     last_period == RFindDotSpace(cut)
                 IN IF last_period # -1 THEN Take(cut, last_period + 1) ELSE cut
            ELSE stripped

\* the question generate_flashcards and main's fallback build from a sentence
Question(sentence) == "Explain: " \o Strip(Take(sentence, QuestionChars)) \o "?"

\* def generate_flashcards(text, n), when it does not fail: a list of dicts
generate_flashcards(text, n) ==
    IF text = "" THEN <<>>
    ELSE LET sentences == StrippedNonEmpty(SplitDots(ReplaceNewlines(text)))
         IN [i \in 1..Min(n, Len(sentences)) |->
                JDict(<<"question", "answer">>,
                      <<Str(Question(sentences[i])), Str(sentences[i])>>)]

(***************************************************************************)
(* The collaborators of main.py, each with the outcome the environment     *)
(* gives it: ok, or a failure (the API or the file system raises).         *)
(***************************************************************************)
\* summarize_notes(text), with what it logs
CallSummarize(text, ok) ==
    LET sending == Log("INFO", "gemini_processor",
                       "Sending text to Gemini for summarization (approx chars=%d).")
    IN IF ok
       THEN Returned(Str(summarize_notes(text)),
                     << sending,
                        IF text = ""
                        THEN Log("INFO", "gemini_processor", "Received empty text for summarization.")
                        ELSE Log("INFO", "gemini_processor",
                                 "Summary successfully generated. Characters: %d") >>)
       ELSE Raised("Exception",
                   <<sending, Log("ERROR", "gemini_processor", "Gemini summarization failed: %s")>>)

\* generate_flashcards(text, n), with what it logs
CallGenerate(text, n, ok) ==
    LET requesting == Log("INFO", "gemini_processor",
                          "Requesting %d flashcards from Gemini output generation.")
    IN IF ok
       THEN Returned(generate_flashcards(text, n),
                     << requesting,
                        IF text = ""
                        THEN Log("INFO", "gemini_processor",
                                 "Empty input provided to generate_flashcards; returning empty list.")
                        ELSE Log("INFO", "gemini_processor", "Parsed %d flashcards from JSON output.") >>)
       ELSE Raised("Exception",
                   <<requesting, Log("ERROR", "gemini_processor", "Flashcard generation failed: %s")>>)

\* the files after open(path, "w") and a write of data
Written(files, path, data) == (path :> data) @@ files

\* date.today().isoformat(), int(time.time()) and the working directory of the run
Today == "2024-05-01"
Timestamp == "1714550400"
Cwd == "/home/user/study-buddy"

\* def create_flashcard_deck(flashcards): what it returns or raises, what it
\* logs and the files after it
CallCreateDeck(flashcards, files, ok) ==
    LET filename == "presentation_" \o Timestamp \o ".json"
        payload == JDict(<<"id", "slides">>, <<Str(Timestamp), JList(flashcards)>>)
        beginning == Log("INFO", "google_api_tools", "Beginning Slides creation for %d flashcards.")
    IN IF ok
       THEN [exc |-> "",
             val |-> JDict(<<"id", "url">>, <<Str(Timestamp), Str(Cwd \o "/" \o filename)>>),
             log |-> << beginning,
                        Log("INFO", "google_api_tools", "Created presentation: id=%s url=%s"),
                        Log("INFO", "google_api_tools", "Successfully added slides for all flashcards.") >>,
             files |-> Written(files, filename, JsonText(payload, 0))]
       ELSE [exc |-> "OSError", val |-> None,
             log |-> <<beginning, Log("ERROR", "google_api_tools", "Failed to create presentation: %s")>>,
             files |-> files]

\* instantiate on values: the overlay is built by the caller, instantiate
\* runs on the heap, and the caller reads the result
InstantiateValue(name, overlay) ==
    LET arg == Loads(RegistryLoad.heap, overlay)
        r == instantiate(arg.heap, name, arg.val)
    IN Dumps(r.heap, r.val)

(***************************************************************************)
(* main.py: main(doc_id), statement by statement.                          *)
(***************************************************************************)
PlaceholderNotes ==
    "Placeholder notes: no document provided. Add a text file or pass a document id."

\* "if doc_id"
Truthy(arg) == arg # None /\ arg.s # ""

\* doc_title = doc_id if doc_id else "local_sample"
DocTitle(arg) == IF Truthy(arg) THEN arg.s ELSE "local_sample"

\* [s.strip() for s in summary.split('.') if s.strip()][:3]
KeyHighlights(summary) ==
    LET sentences == StrippedNonEmpty(SplitDots(summary))
    IN SubSeq(sentences, 1, Min(HighlightCount, Len(sentences)))

\* the document_summary main builds (lines 54-61)
DocSummary(arg, summary) ==
    InstantiateValue("document_summary",
        JDict(<<"document_title", "overview", "key_highlights", "important_terms", "action_items">>,
              << Str(DocTitle(arg)), Str(summary),
                 JList([i \in 1..Len(KeyHighlights(summary)) |-> Str(KeyHighlights(summary)[i])]),
                 JList(<<>>), JList(<<>>) >>))

\* a fallback card whose answer is left empty
FallbackCard_no_answer(h) ==
    InstantiateValue("flashcard",
        JDict(<<"question", "answer", "hint", "difficulty", "next_review_date">>,
              << Str(Question(h)), Str(""), Str("Review the document highlights"),
                 Str("Medium"), Str("") >>))

\* the fallback card of a highlight (lines 81-89 and 93-101)
FallbackCard(h) ==
    InstantiateValue("flashcard",
        JDict(<<"question", "answer", "hint", "difficulty", "next_review_date">>,
              << Str(Question(h)), Str(h), Str("Review the document highlights"),
                 Str("Medium"), Str("") >>))

\* the card of a highlight when generate_flashcards returned (lines 76-89)
GeneratedCard(h, generated) ==
    IF generated # <<>>
    THEN InstantiateValue("flashcard", generated[1])
    ELSE FallbackCard(h)

Critical == Log("CRITICAL", "main", "Study Buddy script crashed: %s")

\* a handler of the document-summary block that logs and raises again
BlockHandler_reraise(log, exc) ==
    [pc |-> "crashed",
     log |-> log \o <<Log("ERROR", "main", "Failed to create/save document summary: %s"), Critical>>,
     out |-> [exc |-> exc, val |-> None]]

\* "except Exception as e" of the document-summary block (lines 109-110):
\* where main goes on, the log, and what main has returned or raised
BlockHandler(log, exc) ==
    [pc |-> "bulk",
     log |-> Append(log, Log("ERROR", "main", "Failed to create/save document summary: %s")),
     out |-> <<>>]

(***************************************************************************)
(* One run of main(doc_id).  Each action is one statement (a call of a     *)
(* collaborator with its handlers); a failure that reaches the outer        *)
(* "except Exception" is logged as critical and raised out of main.        *)
(***************************************************************************)
SentenceA ==
    "Energy cannot be created or destroyed in an isolated system it is only converted from one form to another"

\* four sentences, the third begun on a new line
TextFour == "Alpha is first. Beta is second.\nGamma is third. Delta is fourth."

\* more than max_chars characters; the 60th character of the first sentence is a space
TextLong ==
    "  " \o SentenceA \o ". Heat flows from hot to cold.\nEntropy never decreases. "
    \o "Absolute zero is unreachable. " \o SentenceA \o ". " \o SentenceA \o ". "
    \o SentenceA \o ".\n"

MainArgs == {None, Str("sample_document.txt"), Str("notes"), Str("1AbCdEf")}

MainFiles ==
    {[p \in {"sample_document.txt", "notes"} |-> IF p = "notes" THEN n ELSE sd] :
        sd \in {Absent, File("Hello world."), File(TextLong)},
        n \in {Directory, File(""), File(TextFour)}}

MainClients == {<<"http_error">>} \cup {<<"document", d>> : d \in Documents}

MainInit ==
    /\ mPc = "start"
    /\ mArg \in MainArgs
    /\ fs \in MainFiles
    /\ api \in MainClients
    /\ fPc = "idle" /\ fDocId = "" /\ fCreds = None /\ fOut = <<>>
    /\ mCreds = None /\ mText = "" /\ mSummary = "" /\ mDoc = None /\ mI = 0
    /\ mCards = <<>> /\ mFinal = <<>> /\ mFiles = <<>> /\ mLog = <<>> /\ mOut = <<>>
    /\ mFailed = <<>> /\ mHlFailed = {} /\ mExit = None

\* the outer handler (lines 125-127)
Crash(log, exc, step) ==
    /\ mPc' = "crashed"
    /\ mLog' = Append(log, Critical)
    /\ mOut' = [exc |-> exc, val |-> None]
    /\ mFailed' = Append(mFailed, step)

\* the handler of the document-summary block (lines 109-110)
BlockFails(log, exc, step) ==
    LET h == BlockHandler(log, exc)
    IN /\ mPc' = h.pc
       /\ mLog' = h.log
       /\ mOut' = h.out
       /\ mFailed' = Append(mFailed, step)

\* lines 14-20: authorize() returns credentials or the placeholder dict
MainAuthorize ==
    /\ mPc = "start"
    /\ \E creds \in {PlaceholderToken, RealCredentials} : mCreds' = creds
    /\ mLog' = << Log("INFO", "main", "Study Buddy workflow initiated."),
                  Log("INFO", "main", "Authorization completed.") >>
    /\ mPc' = "fetch"
    /\ UNCHANGED <<mArg, mText, mSummary, mDoc, mI, mCards, mFinal, mFiles, mOut, mFailed,
                   mHlFailed, mExit, tplVars, renderVars,
                   fetchVars, authVars>>

\* a document source that falls back to the local sample, and then to the
\* placeholder notes, also when the fetch of a given identifier fails
DocumentSource_always_fallback(arg, creds, files, client) ==
    LET given == IF Truthy(arg) THEN get_document_text(arg.s, creds, files, client)
                 ELSE Raised("FileNotFoundError", <<>>)
        r == get_document_text("sample_document.txt", creds, files, client)
    IN IF given.exc = ""
       THEN [exc |-> "", text |-> given.val.s, log |-> given.log]
       ELSE IF r.exc = ""
       THEN [exc |-> "", text |-> r.val.s, log |-> given.log \o r.log]
       ELSE [exc |-> "", text |-> PlaceholderNotes, log |-> given.log \o r.log]

\* lines 22-42: the text main works on, the exception the fetch of a given
\* identifier raised, and what was logged
DocumentSource(arg, creds, files, client) ==
    IF Truthy(arg)
    THEN LET r == get_document_text(arg.s, creds, files, client)
         IN IF r.exc # ""
            THEN [exc |-> r.exc, text |-> "",
                  log |-> r.log \o <<Log("ERROR", "main",
                                         "Document %s not found locally and API fetch failed.")>>]
            ELSE [exc |-> "", text |-> r.val.s,
                  log |-> r.log \o <<Log("INFO", "main",
                                         "Notes successfully fetched from document: %s")>>]
    ELSE LET r == get_document_text("sample_document.txt", creds, files, client)
         IN IF r.exc # ""
            THEN [exc |-> "", text |-> PlaceholderNotes,
                  log |-> r.log \o <<Log("WARNING", "main",
                                         "No document provided and no local sample found; using placeholder notes.")>>]
            ELSE [exc |-> "", text |-> r.val.s,
                  log |-> r.log \o <<Log("INFO", "main",
                                         "Notes successfully fetched from local sample_document.txt.")>>]

\* lines 22-42: the document source; a failure for a given identifier is raised
MainFetch ==
    /\ mPc = "fetch"
    /\ LET d == DocumentSource(mArg, mCreds, fs, api)
       IN IF d.exc # ""
          THEN /\ Crash(mLog \o d.log, d.exc, "fetch")
               /\ UNCHANGED mText
          ELSE /\ mText' = d.text
               /\ mLog' = mLog \o d.log
               /\ mPc' = "summarize"
               /\ UNCHANGED <<mOut, mFailed>>
    /\ UNCHANGED <<mArg, mCreds, mSummary, mDoc, mI, mCards, mFinal, mFiles, mHlFailed,
                   mExit, tplVars, renderVars, fetchVars, authVars>>

\* lines 44-49: summary = summarize_notes(text)
MainSummarize ==
    /\ mPc = "summarize"
    /\ \E ok \in BOOLEAN :
          LET r == CallSummarize(mText, ok)
          IN IF r.exc # ""
             THEN /\ Crash(mLog \o r.log, r.exc, "summarize")
                  /\ UNCHANGED mSummary
             ELSE /\ mSummary' = r.val.s
                  /\ mLog' = mLog \o r.log
                               \o <<Log("INFO", "main", "Notes summarization complete.")>>
                  /\ mPc' = "build"
                  /\ UNCHANGED <<mOut, mFailed>>
    /\ UNCHANGED <<mArg, mCreds, mText, mDoc, mI, mCards, mFinal, mFiles, mHlFailed,
                   mExit, tplVars, renderVars,
                   fetchVars, authVars>>

\* lines 53-61: doc_summary = instantiate("document_summary", ...)
MainBuildSummary ==
    /\ mPc = "build"
    /\ mDoc' = DocSummary(mArg, mSummary)
    /\ mPc' = "save_markdown"
    /\ UNCHANGED <<mArg, mCreds, mText, mSummary, mI, mCards, mFinal, mFiles, mLog, mOut,
                   mFailed, mHlFailed, mExit, tplVars, renderVars,
                   fetchVars, authVars>>

\* lines 63-66: save_markdown(md_fname, render_markdown(...))
MainSaveMarkdown ==
    /\ mPc = "save_markdown"
    /\ \E ok \in BOOLEAN :
          IF ok
          THEN /\ mFiles' = Written(mFiles,
                                    "document_summary_" \o DocTitle(mArg) \o "_" \o Today \o ".md",
                                    render_markdown("document_summary", mDoc))
               /\ mPc' = "save_json"
               /\ UNCHANGED <<mLog, mOut, mFailed>>
          ELSE /\ BlockFails(mLog, "OSError", "save_markdown")
               /\ UNCHANGED mFiles
    /\ UNCHANGED <<mArg, mCreds, mText, mSummary, mDoc, mI, mCards, mFinal, mHlFailed,
                   mExit, tplVars, renderVars,
                   fetchVars, authVars>>

\* lines 67-71: save_json(json_fname, doc_summary)
MainSaveJson ==
    /\ mPc = "save_json"
    /\ \E ok \in BOOLEAN :
          IF ok
          THEN /\ mFiles' = Written(mFiles,
                                    "document_summary_" \o DocTitle(mArg) \o "_" \o Today \o ".json",
                                    JsonText(mDoc, 0))
               /\ mLog' = Append(mLog, Log("INFO", "main", "Saved document summary: %s and %s"))
               /\ mPc' = "highlights"
               /\ mI' = 1
               /\ UNCHANGED <<mOut, mFailed>>
          ELSE /\ BlockFails(mLog, "OSError", "save_json")
               /\ UNCHANGED <<mFiles, mI>>
    /\ UNCHANGED <<mArg, mCreds, mText, mSummary, mDoc, mCards, mFinal, mHlFailed,
                   mExit, tplVars, renderVars,
                   fetchVars, authVars>>

\* doc_summary.get("key_highlights", []), as strings
Highlights(doc) ==
    LET list == DictGet(doc, "key_highlights", JList(<<>>))
    IN [i \in 1..Len(list.items) |-> list.items[i].s]

\* lines 72-102: one turn of the loop over the highlights
MainHighlight ==
    /\ mPc = "highlights"
    /\ mI <= Len(Highlights(mDoc))
    /\ \E ok \in BOOLEAN :
          LET h == Highlights(mDoc)[mI]
              r == CallGenerate(h, 1, ok)
          IN IF r.exc # ""
             THEN /\ mCards' = Append(mCards, FallbackCard(h))
                  /\ mLog' = mLog \o r.log
                               \o <<Log("WARNING", "main",
                                        "generate_flashcards failed for highlight #%d; using fallback card.")>>
                  /\ mHlFailed' = mHlFailed \cup {mI}
             ELSE /\ mCards' = Append(mCards, GeneratedCard(h, r.val))
                  /\ mLog' = mLog \o r.log
                  /\ UNCHANGED mHlFailed
    /\ mI' = mI + 1
    /\ UNCHANGED <<mPc, mArg, mCreds, mText, mSummary, mDoc, mFinal, mFiles, mOut, mFailed,
                   mExit, tplVars, renderVars,
                   fetchVars, authVars>>

\* lines 104-107: after the loop, the highlight cards are saved if there are any
MainSaveHighlights ==
    /\ mPc = "highlights"
    /\ mI > Len(Highlights(mDoc))
    /\ \E ok \in (IF mCards = <<>> THEN {TRUE} ELSE BOOLEAN) :
          IF ok
          THEN /\ IF mCards # <<>>
                  THEN /\ mFiles' = Written(mFiles,
                                            "flashcards_from_highlights_" \o DocTitle(mArg)
                                                \o "_" \o Today \o ".json",
                                            JsonText(JList(mCards), 0))
                       /\ mLog' = Append(mLog, Log("INFO", "main",
                                                   "Saved %d highlight-derived flashcards to %s"))
                  ELSE UNCHANGED <<mFiles, mLog>>
               /\ mPc' = "bulk"
               /\ UNCHANGED <<mOut, mFailed>>
          ELSE /\ BlockFails(mLog, "OSError", "save_highlights")
               /\ UNCHANGED mFiles
    /\ UNCHANGED <<mArg, mCreds, mText, mSummary, mDoc, mI, mCards, mFinal, mHlFailed,
                   mExit, tplVars, renderVars,
                   fetchVars, authVars>>

\* a combination that puts the bulk-generated cards first
Combine_bulk_first(highlight_cards, generated_cards) == generated_cards \o highlight_cards

\* final_flashcards = highlight_cards + generated_cards (line 115)
Combine(highlight_cards, generated_cards) == highlight_cards \o generated_cards

\* lines 112-116: generated_cards = generate_flashcards(summary, n=10)
MainBulkGenerate ==
    /\ mPc = "bulk"
    /\ \E ok \in BOOLEAN :
          LET r == CallGenerate(mSummary, BulkCards, ok)
          IN IF r.exc # ""
             THEN /\ Crash(mLog \o r.log, r.exc, "bulk_generate")
                  /\ UNCHANGED mFinal
             ELSE /\ mFinal' = Combine(mCards, r.val)
                  /\ mLog' = mLog \o r.log
                               \o <<Log("INFO", "main",
                                        "Generated %d flashcards (including %d from highlights).")>>
                  /\ mPc' = "deck"
                  /\ UNCHANGED <<mOut, mFailed>>
    /\ UNCHANGED <<mArg, mCreds, mText, mSummary, mDoc, mI, mCards, mFiles, mHlFailed,
                   mExit, tplVars, renderVars,
                   fetchVars, authVars>>

\* lines 118-123: presentation = create_flashcard_deck(final_flashcards)
MainCreateDeck ==
    /\ mPc = "deck"
    /\ \E ok \in BOOLEAN :
          LET r == CallCreateDeck(mFinal, mFiles, ok)
          IN IF r.exc # ""
             THEN /\ Crash(mLog \o r.log, r.exc, "create_flashcard_deck")
                  /\ UNCHANGED mFiles
             ELSE /\ mFiles' = r.files
                  /\ mLog' = mLog \o r.log
                               \o << Log("INFO", "main", "Presentation created: %s"),
                                     Log("INFO", "main",
                                         "Study Buddy process complete. Check the log file for details.") >>
                  /\ mOut' = [exc |-> "", val |-> r.val]
                  /\ mPc' = "done"
                  /\ UNCHANGED mFailed
    /\ UNCHANGED <<mArg, mCreds, mText, mSummary, mDoc, mI, mCards, mFinal, mHlFailed,
                   mExit, tplVars, renderVars,
                   fetchVars, authVars>>

\* an exit status that is 1 only when FileNotFoundError left main
ExitCode_not_found_only(out) == IF out.exc = "FileNotFoundError" THEN 1 ELSE 0

\* the exit status of "python main.py": 0 when main returned, 1 when an
\* exception left main uncaught (lines 130-132 call main and catch nothing)
ExitCode(out) == IF out.exc = "" THEN 0 ELSE 1

\* lines 130-132: the process ends when main(arg) has returned or raised
MainExit ==
    /\ mPc \in {"done", "crashed"}
    /\ mExit = None
    /\ mExit' = Num(ExitCode(mOut))
    /\ UNCHANGED <<mPc, mArg, mCreds, mText, mSummary, mDoc, mI, mCards, mFinal, mFiles, mLog,
                   mOut, mFailed, mHlFailed, tplVars, renderVars, fetchVars, authVars>>

InitMain == TplIdle /\ RenderIdle /\ MainInit /\ AuthIdle

NextMain ==
    \/ MainAuthorize
    \/ MainFetch
    \/ MainSummarize
    \/ MainBuildSummary
    \/ MainSaveMarkdown
    \/ MainSaveJson
    \/ MainHighlight
    \/ MainSaveHighlights
    \/ MainBulkGenerate
    \/ MainCreateDeck
    \/ MainExit

SpecMain == InitMain /\ [][NextMain]_vars

(***************************************************************************)
(* Properties of main's failure handling.                                  *)
(***************************************************************************)
Steps(failed) == {failed[i] : i \in 1..Len(failed)}

InLog(entry) == \E i \in 1..Len(mLog) : mLog[i] = entry

\* the steps whose failure reaches the outer handler
FatalSteps == {"summarize", "bulk_generate", "create_flashcard_deck"}

\* the persistence steps inside the document-summary block
BlockSteps == {"save_markdown", "save_json", "save_highlights"}

BlockError == Log("ERROR", "main", "Failed to create/save document summary: %s")

RaisedOutOfMain ==
    /\ mPc = "crashed"
    /\ mOut # <<>>
    /\ mOut.exc # ""
    /\ mOut.val = None
    /\ mLog[Len(mLog)] = Critical

ReturnedPresentation ==
    /\ mPc = "done"
    /\ mOut # <<>>
    /\ mOut.exc = ""
    /\ mOut.val # None

\* C9 as stated: in a run in which a summarization, bulk-generation or
\* persistence step (save_markdown, save_json, create_flashcard_deck) has
\* failed, main has logged the failure and raised it: it is at no later step
\* and has returned no presentation.
C9_EveryFailureReraised ==
    Steps(mFailed) \cap (FatalSteps \cup BlockSteps) # {} => RaisedOutOfMain

\* C9 as amended: a failure of summarization, bulk generation or
\* create_flashcard_deck is logged as critical and raised out of main, which
\* runs no later step and returns no presentation; a failure of save_markdown
\* or save_json inside the document-summary block is logged as an error and
\* recovered: the rest of the block is skipped and main goes on with bulk
\* generation, so that a presentation can be returned in that run.
C9_FailureHandling ==
    /\ Steps(mFailed) \cap FatalSteps # {}
          => /\ RaisedOutOfMain
             /\ mFailed[Len(mFailed)] \in FatalSteps
             /\ \A i \in 1..(Len(mFailed) - 1) : mFailed[i] \notin FatalSteps \cup {"fetch"}
    /\ Steps(mFailed) \cap BlockSteps # {}
          => /\ InLog(BlockError)
             /\ mPc \in {"bulk", "deck", "done", "crashed"}
             /\ mPc = "crashed" => mFailed[Len(mFailed)] \in FatalSteps
             /\ Cardinality(Steps(mFailed) \cap BlockSteps) = 1
             /\ "save_markdown" \in Steps(mFailed)
                   => DOMAIN mFiles \subseteq {"presentation_" \o Timestamp \o ".json"}
             /\ Steps(mFailed) \cap {"save_markdown", "save_json"} # {} => mCards = <<>>
    /\ mPc = "done"
          => /\ ReturnedPresentation
             /\ Steps(mFailed) \subseteq BlockSteps
             /\ ~InLog(Critical)

\* a run in which save_json failed, main went on, and bulk generation then
\* failed and was raised out of main
C9_Witness ==
    /\ mFailed = <<"save_json", "bulk_generate">>
    /\ RaisedOutOfMain
    /\ InLog(BlockError)

(***************************************************************************)
(* Properties of the loop over the highlights.                             *)
(***************************************************************************)
HighlightWarning ==
    Log("WARNING", "main", "generate_flashcards failed for highlight #%d; using fallback card.")

Warnings == Cardinality({i \in 1..Len(mLog) : mLog[i] = HighlightWarning})

FieldOf(card, key) == DictGet(card, key, None)

\* the loop has started
InLoop == mI >= 1

\* the loop has ended
LoopDone == InLoop /\ (mPc # "highlights" \/ mI > Len(Highlights(mDoc)))

\* one card per highlight handled so far, in order; failures logged
OneCardEach ==
    /\ Len(mCards) = mI - 1
    /\ mI <= Len(Highlights(mDoc)) + 1
    /\ mHlFailed \subseteq 1..Len(mCards)
    /\ Warnings = Cardinality(mHlFailed)
    /\ LoopDone => Len(mCards) = Len(Highlights(mDoc))
    /\ \A i \in 1..Len(mCards) :
          /\ FieldOf(mCards[i], "question") # None
          /\ i \notin mHlFailed
                => FieldOf(mCards[i], "answer") = Str(Strip(ReplaceNewlines(Highlights(mDoc)[i])))

\* C10 as stated: one card per highlight in order, and the card of a
\* highlight whose generation failed has the question "Explain: " + the
\* first 60 characters of the highlight + "?", the highlight as answer and
\* difficulty "Medium".
C10_FallbackFirstSixty ==
    InLoop =>
       /\ OneCardEach
       /\ \A i \in mHlFailed :
             LET h == Highlights(mDoc)[i]
             IN /\ FieldOf(mCards[i], "question") = Str("Explain: " \o Take(h, QuestionChars) \o "?")
                /\ FieldOf(mCards[i], "answer") = Str(h)
                /\ FieldOf(mCards[i], "difficulty") = Str("Medium")

\* C10 as amended: one card per highlight in order; a failure of
\* generate_flashcards for a highlight is logged and the fallback card is
\* appended, whose question is "Explain: " + the first 60 characters of the
\* highlight with surrounding whitespace stripped + "?", whose answer is the
\* highlight and whose difficulty is "Medium"; after the loop there are as
\* many cards as highlights.
C10_FallbackPerHighlight ==
    InLoop =>
       /\ OneCardEach
       /\ \A i \in mHlFailed :
             LET h == Highlights(mDoc)[i]
             IN /\ FieldOf(mCards[i], "question")
                      = Str("Explain: " \o Strip(Take(h, QuestionChars)) \o "?")
                /\ FieldOf(mCards[i], "answer") = Str(h)
                /\ FieldOf(mCards[i], "difficulty") = Str("Medium")
                /\ FieldOf(mCards[i], "hint") = Str("Review the document highlights")

\* the loop has ended over three highlights of which the first, whose 60th
\* character is a space, failed and the later ones were still handled
C10_Witness ==
    /\ LoopDone
    /\ Len(Highlights(mDoc)) = 3
    /\ Highlights(mDoc)[1] = SentenceA
    /\ mHlFailed = {1}
    /\ Len(mCards) = 3

(***************************************************************************)
(* Properties of the deck main hands to create_flashcard_deck.             *)
(***************************************************************************)
PresentationFile == "presentation_" \o Timestamp \o ".json"

\* the run has reached deck creation
ReachedDeck ==
    \/ mPc \in {"deck", "done"}
    \/ mPc = "crashed" /\ mFailed[Len(mFailed)] = "create_flashcard_deck"

\* C11: the sequence handed to create_flashcard_deck is the highlight-derived
\* cards in their order followed by the bulk-generated cards in their order,
\* every card present once; the deck file written holds that sequence as
\* its slides.
C11_HighlightCardsFirst ==
    ReachedDeck =>
       LET bulk == generate_flashcards(mSummary, BulkCards)
           k == Len(mCards)
       IN /\ Len(mFinal) = k + Len(bulk)
          /\ \A i \in 1..k : mFinal[i] = mCards[i]
          /\ \A j \in 1..Len(bulk) : mFinal[k + j] = bulk[j]
          /\ mPc = "done"
                => /\ PresentationFile \in DOMAIN mFiles
                   /\ mFiles[PresentationFile]
                         = JsonText(JDict(<<"id", "slides">>,
                                          <<Str(Timestamp), JList(mCards \o bulk)>>), 0)

\* a deck written from three highlight-derived cards and several bulk cards
C11_Witness ==
    /\ mPc = "done"
    /\ Len(mCards) = 3
    /\ Len(mFinal) > Len(mCards) + 1
    /\ PresentationFile \in DOMAIN mFiles

(***************************************************************************)
(* Properties of the exit status of the command line.                      *)
(***************************************************************************)
\* the document identifier given was not found
NotFound ==
    /\ Truthy(mArg)
    /\ mFailed = <<"fetch">>
    /\ mOut # <<>>
    /\ mOut.exc = "FileNotFoundError"

\* C12 as stated: the process exits with 1 when the given identifier is not
\* found and with 0 in every other run.
C12_ExitOneOnlyWhenNotFound ==
    mExit # None => mExit = Num(IF NotFound THEN 1 ELSE 0)

\* C12 as amended: the process exits with 1 whenever an exception leaves
\* main (the document is not found, or summarization, bulk generation or
\* deck creation fails), and with 0 exactly when main returns.
C12_ExitCode ==
    mExit # None =>
       /\ NotFound => mExit = Num(1)
       /\ mExit = Num(1) <=> RaisedOutOfMain
       /\ mExit = Num(0) <=> ReturnedPresentation
       /\ mExit \in {Num(0), Num(1)}

\* the process has exited with 1 because the identifier was not found
C12_Witness ==
    /\ mExit = Num(1)
    /\ NotFound
    /\ mArg = Str("1AbCdEf")

(***************************************************************************)
(* auth.py: authorize.  Its environment is the availability of the Google  *)
(* auth libraries, token.json, client_secrets.json, and the outcomes of    *)
(* the refresh request, the OAuth flow and the writes of token.json.       *)
(***************************************************************************)
AuthLog(level, msg) == Log(level, "auth", msg)

AuthResult(exc, val, log, token) == [exc |-> exc, val |-> val, log |-> log, token |-> token]

\* a placeholder writer that lets the failure of the write escape
write_placeholder_token_unguarded(env, log) ==
    IF env.placeholderWrite
    THEN AuthResult("", PlaceholderToken,
                    Append(log, AuthLog("INFO", "Created placeholder credentials and saved to %s.")),
                    "placeholder")
    ELSE AuthResult("OSError", None, log, env.token)

\* def _write_placeholder_token() (lines 77-85), after the log so far
write_placeholder_token(env, log) ==
    IF env.placeholderWrite
    THEN AuthResult("", PlaceholderToken,
                    Append(log, AuthLog("INFO", "Created placeholder credentials and saved to %s.")),
                    "placeholder")
    ELSE AuthResult("", PlaceholderToken,
                    Append(log, AuthLog("WARNING", "Could not write placeholder %s.")),
                    env.token)

\* the body of the outer try of authorize (lines 31-70)
AuthorizeBody(env) ==
    LET start == <<AuthLog("INFO", "Starting authorization process.")>>
        loaded == start \o
                  (IF env.token = "absent" THEN <<>>
                   ELSE IF env.token = "corrupt"
                   THEN <<AuthLog("WARNING",
                                  "Failed to load credentials from %s; will attempt refresh or new flow.")>>
                   ELSE <<AuthLog("INFO", "Loaded credentials from %s.")>>)
        refreshing == env.token = "expired_refreshable"
        refreshed == loaded \o
                     (IF ~refreshing THEN <<>>
                      ELSE IF env.refresh = "error"
                      THEN <<AuthLog("WARNING", "Failed to refresh credentials: %s")>>
                      ELSE <<AuthLog("INFO", "Refreshed expired credentials.")>>)
    IN IF ~env.libs
       THEN write_placeholder_token(env,
                Append(start, AuthLog("WARNING",
                                      "Google auth libraries not available; using placeholder credentials.")))
       ELSE IF env.token = "valid"
       THEN AuthResult("", RealCredentials, loaded, env.token)
       ELSE IF refreshing /\ env.refresh = "ok"
       THEN AuthResult("", RealCredentials, refreshed, env.token)
       ELSE IF ~env.secrets
       THEN write_placeholder_token(env,
                Append(refreshed, AuthLog("WARNING",
                                          "%s not found; cannot run OAuth flow. Using placeholder credentials.")))
       ELSE IF env.flow = "secrets_error"
       THEN AuthResult("ValueError", None, refreshed, env.token)
       ELSE IF env.flow = "server_error"
       THEN AuthResult("Exception", None, refreshed, env.token)
       ELSE IF ~env.tokenWrite
       THEN AuthResult("OSError", None, refreshed, env.token)
       ELSE AuthResult("", RealCredentials,
                       Append(refreshed, AuthLog("INFO",
                                                 "Obtained new credentials via OAuth and saved to %s.")),
                       "credentials")

\* def authorize() (lines 17-74): the body, and the outer "except Exception"
authorize(env) ==
    LET body == AuthorizeBody(env)
    IN IF body.exc # ""
       THEN write_placeholder_token(env,
                Append(body.log, AuthLog("ERROR", "Authorization failed: %s")))
       ELSE body

TokenStates == {"absent", "corrupt", "valid", "expired_refreshable", "expired", "invalid"}
RefreshOutcomes == {"ok", "error", "still_invalid"}
FlowOutcomes == {"ok", "secrets_error", "server_error"}

AuthEnvs ==
    [libs : BOOLEAN, token : TokenStates, refresh : RefreshOutcomes, secrets : BOOLEAN,
     flow : FlowOutcomes, tokenWrite : BOOLEAN, placeholderWrite : BOOLEAN]

AuthInit == aPc = "call" /\ aEnv \in AuthEnvs /\ aOut = <<>>

CallAuthorize ==
    /\ aPc = "call"
    /\ aOut' = authorize(aEnv)
    /\ aPc' = "returned"
    /\ UNCHANGED <<aEnv, tplVars, renderVars, fetchVars, mainVars>>

InitAuth == TplIdle /\ RenderIdle /\ FetchIdle /\ MainIdle /\ AuthInit

NextAuth == CallAuthorize

SpecAuth == InitAuth /\ [][NextAuth]_vars

(***************************************************************************)
(* Properties of authorize, checked under SpecAuth.                        *)
(***************************************************************************)
\* the environments in which authorize ends with usable credentials
YieldsCredentials(env) ==
    /\ env.libs
    /\ \/ env.token = "valid"
       \/ env.token = "expired_refreshable" /\ env.refresh = "ok"
       \/ env.secrets /\ env.flow = "ok" /\ env.tokenWrite

\* C13: in every environment authorize returns and never raises: it returns
\* the credentials or the placeholder mapping, never nothing, also when the
\* placeholder token file cannot be written.
C13_AuthorizeNeverFails ==
    aPc = "returned" =>
       /\ aOut.exc = ""
       /\ aOut.val \in {RealCredentials, PlaceholderToken}
       /\ aOut.val = RealCredentials <=> YieldsCredentials(aEnv)
       /\ (aOut.val = PlaceholderToken /\ ~aEnv.placeholderWrite)
             => /\ aOut.log[Len(aOut.log)] = AuthLog("WARNING", "Could not write placeholder %s.")
                /\ aOut.token = aEnv.token

\* the OAuth flow succeeded, saving the credentials failed, and so did
\* writing the placeholder token file: authorize returned the placeholder
C13_Witness ==
    /\ aPc = "returned"
    /\ aEnv.libs /\ aEnv.token = "absent" /\ aEnv.secrets /\ aEnv.flow = "ok"
    /\ ~aEnv.tokenWrite /\ ~aEnv.placeholderWrite
    /\ aOut.exc = ""
    /\ aOut.val = PlaceholderToken
    /\ \E i \in 1..Len(aOut.log) : aOut.log[i] = AuthLog("ERROR", "Authorization failed: %s")

(***************************************************************************)
(* Properties of the document source of main, checked under SpecMain.      *)
(***************************************************************************)
SampleDocument == "sample_document.txt"

\* the Docs API answers the request main's credentials allow it to make
RemoteResolves == mCreds = RealCredentials /\ api[1] = "document"

SummarizeStarted ==
    InLog(Log("INFO", "gemini_processor",
              "Sending text to Gemini for summarization (approx chars=%d)."))

FetchesStarted ==
    Cardinality({i \in 1..Len(mLog) :
                    mLog[i] = Log("INFO", "google_api_tools", "Starting fetch for document ID: %s")})

FallbackUsed ==
    \/ InLog(Log("INFO", "main", "Notes successfully fetched from local sample_document.txt."))
    \/ InLog(Log("WARNING", "main",
                 "No document provided and no local sample found; using placeholder notes."))

ApiFailed == fCreds # None /\ ~IsDict(fCreds) /\ api[1] # "document"

\* C15: when real credentials are supplied and the Docs API call fails,
\* get_document_text raises to its caller and does not return the content
\* of a local file named by the identifier.
C15_ApiFailureSurfaced ==
    (fPc = "returned" /\ ApiFailed) =>
        /\ fOut.exc # ""
        /\ fOut.val = None
====
